---- MODULE Spec2Model ----
(***************************************************************************)
(* Model of the DPoS query API of go-themis (consensus/dpos/api.go).       *)
(*                                                                         *)
(* The API object holds no mutable state of its own: its state is the      *)
(* chain it reads (consensus.ChainReader) and, per call, the arguments,    *)
(* the header lookups and state-machine evaluations it issues and the      *)
(* value/error pair it returns.                                            *)
(*                                                                         *)
(* Arbitrary-precision integers (big.Int) are kept exact.  A big integer   *)
(* is the record [q, r] standing for q * 2^63 + r with |r| far below 2^62, *)
(* so that values around 2^63 and 2^64 are represented without leaving     *)
(* the range of the model checker's machine integers.  Every 64-bit        *)
(* conversion of math/big (Int64, Uint64) and of Go (uint64(int64)) is     *)
(* computed on that representation exactly as two's complement does.       *)
(*                                                                         *)
(* Go slices are 0-based; sequences here are 1-based, so serial i of the   *)
(* source is serial i+1 of the model.                                      *)
(***************************************************************************)
EXTENDS Integers, Sequences, FiniteSets, TLC

\* Bounds of the model.
MaxHeight == 3
MaxProducers == 3
MaxWeight == 2

-----------------------------------------------------------------------------
\* big.Int values: [q, r] is q * 2^63 + r.

Big(q, r) == [q |-> q, r |-> r]

Small(n) == Big(0, n)

TwoTo63 == Big(1, 0)

TwoTo64 == Big(2, 0)

\* x.Sign()
Sign(x) ==
    IF x.q > 0 THEN 1
    ELSE IF x.q < 0 THEN -1
    ELSE IF x.r > 0 THEN 1
    ELSE IF x.r < 0 THEN -1
    ELSE 0

\* x.Cmp(y): -1, 0 or 1
Cmp(x, y) ==
    IF x.q < y.q THEN -1
    ELSE IF x.q > y.q THEN 1
    ELSE IF x.r < y.r THEN -1
    ELSE IF x.r > y.r THEN 1
    ELSE 0

\* |x|
Abs(x) == IF Sign(x) < 0 THEN Big(-x.q, -x.r) ELSE x

\* low64(x.abs): the low 64 bits of |x|, a uint64 in 0 .. 2^64-1
Low64(x) ==
    LET a == Abs(x) IN
    IF a.q % 2 = 1 THEN Big(1, a.r)
    ELSE IF a.r >= 0 THEN Big(0, a.r)
    ELSE Big(2, a.r)

\* int64(u) of a uint64 u: two's complement reinterpretation
ToInt64(u) ==
    IF u.q = 0 THEN u
    ELSE IF u.q = 1 /\ u.r < 0 THEN u
    ELSE IF u.q = 1 THEN Big(-1, u.r)
    ELSE Big(0, u.r)

\* -v on int64 (wraps: -MinInt64 = MinInt64)
NegInt64(v) == IF v = Big(-1, 0) THEN v ELSE Big(-v.q, -v.r)

\* uint64(v) of an int64 v: two's complement reinterpretation
ToUint64(v) ==
    IF Sign(v) >= 0 THEN v
    ELSE IF v.q = 0 THEN Big(2, v.r)
    ELSE Big(1, v.r)

\* x.Int64(): int64(low64(x.abs)), negated when x is negative
Int64(x) ==
    LET v == ToInt64(Low64(x)) IN
    IF Sign(x) < 0 THEN NegInt64(v) ELSE v

\* x.Uint64(): low64(x.abs)
Uint64(x) == Low64(x)

\* A big.Int argument is a pointer: nil or a value.
NilInt == <<>>

Ptr(v) == <<v>>

Deref(p) == p[1]

-----------------------------------------------------------------------------
\* Errors.

NoError == "nil"

errInvalidInput == "invalid input"

errUnknownBlock == "unknown block"

errTooFewProducers == "too few producers"

errNullString == "null string"

errRegAddress == "can't get reg contract address"

errVoteAddress == "can't get vote contract address"

\* An error returned by dpos.Call (opaque, propagated unchanged).
errCall == "call error"

\* An error returned by ABI Unpack.
errUnpack == "unpack error"

\* Runtime panic (nil pointer dereference).
errPanic == "panic"

\* Contract names.
regContract == "system.regContract"

voteContract == "system.voteContract"

MainSystemContractAddr == <<"main">>

NoValue == <<>>

-----------------------------------------------------------------------------
\* State.

VARIABLES
    height,     \* number of the chain's current header
    chain,      \* chain storage: number -> header, NilHeader on a storage miss
    op,         \* the API call being answered, "idle" between calls
    args,       \* its arguments
    result,     \* [err, value] it returns
    lookups,    \* numbers passed to GetHeaderByNumber during the call
    evals,      \* CallMsgs passed to dpos.Call during the call, in order
    decoded     \* what Unpack produced for getAllProducersInfo, if reached

vars == <<height, chain, op, args, result, lookups, evals, decoded>>

NilHeader == <<>>

\* The header the chain records at number n.  Producer sets differ from one
\* number to the next and the active set differs from the pending set.
HeaderFor(n) ==
    [Number |-> n,
     ActiveProducers |-> <<n + 1, n + 2>>,
     PendingProducers |-> <<n + 2, n + 3>>]

\* chain.CurrentHeader()
CurrentHeader == chain[height]

\* chain.GetHeaderByNumber(number), number a uint64
GetHeaderByNumber(number) ==
    IF number.q = 0 /\ number.r \in DOMAIN chain THEN chain[number.r]
    ELSE NilHeader

\* Variants of ResolveHeader with one defect each.

\* The historical branch is missing: a number below the current one is
\* answered from the current header.
ResolveHeaderNoHistory(blockNumber) ==
    LET header == CurrentHeader IN
    IF /\ blockNumber # NilInt
       /\ \/ Cmp(Deref(blockNumber), Small(0)) < 0
          \/ Cmp(Deref(blockNumber), Small(header.Number)) > 0
    THEN [err |-> errInvalidInput, header |-> NilHeader, lookups |-> <<>>]
    ELSE [err |-> NoError, header |-> header, lookups |-> <<>>]

\* The rejecting branch tests only the upper end of the range.
ResolveHeaderNoLowerCheck(blockNumber) ==
    LET header == CurrentHeader IN
    IF /\ blockNumber # NilInt
       /\ Cmp(Deref(blockNumber), Small(0)) > 0
       /\ Cmp(Deref(blockNumber), Small(header.Number)) < 0
    THEN LET number == Uint64(Deref(blockNumber))
             found == GetHeaderByNumber(number)
         IN [err |-> IF found = NilHeader THEN errUnknownBlock ELSE NoError,
             header |-> found,
             lookups |-> <<number>>]
    ELSE IF /\ blockNumber # NilInt
            /\ Cmp(Deref(blockNumber), Small(header.Number)) > 0
    THEN [err |-> errInvalidInput, header |-> NilHeader, lookups |-> <<>>]
    ELSE [err |-> NoError, header |-> header, lookups |-> <<>>]

\* A storage miss keeps the current header instead of failing.
ResolveHeaderMissKeepsCurrent(blockNumber) ==
    LET header == CurrentHeader IN
    IF /\ blockNumber # NilInt
       /\ Cmp(Deref(blockNumber), Small(0)) > 0
       /\ Cmp(Deref(blockNumber), Small(header.Number)) < 0
    THEN LET number == Uint64(Deref(blockNumber))
             found == GetHeaderByNumber(number)
         IN [err |-> NoError,
             header |-> IF found = NilHeader THEN header ELSE found,
             lookups |-> <<number>>]
    ELSE IF /\ blockNumber # NilInt
            /\ \/ Cmp(Deref(blockNumber), Small(0)) < 0
               \/ Cmp(Deref(blockNumber), Small(header.Number)) > 0
    THEN [err |-> errInvalidInput, header |-> NilHeader, lookups |-> <<>>]
    ELSE [err |-> NoError, header |-> header, lookups |-> <<>>]

\* The historical branch also takes the current number (<= for <).
ResolveHeaderInclusive(blockNumber) ==
    LET header == CurrentHeader IN
    IF /\ blockNumber # NilInt
       /\ Cmp(Deref(blockNumber), Small(0)) > 0
       /\ Cmp(Deref(blockNumber), Small(header.Number)) <= 0
    THEN LET number == Uint64(Deref(blockNumber))
             found == GetHeaderByNumber(number)
         IN [err |-> IF found = NilHeader THEN errUnknownBlock ELSE NoError,
             header |-> found,
             lookups |-> <<number>>]
    ELSE IF /\ blockNumber # NilInt
            /\ \/ Cmp(Deref(blockNumber), Small(0)) < 0
               \/ Cmp(Deref(blockNumber), Small(header.Number)) > 0
    THEN [err |-> errInvalidInput, header |-> NilHeader, lookups |-> <<>>]
    ELSE [err |-> NoError, header |-> header, lookups |-> <<>>]

\* The header resolution every height-taking operation starts with:
\*   header := api.chain.CurrentHeader()
\*   if blockNumber != nil && blockNumber > 0 && blockNumber < header.Number {
\*       header = api.chain.GetHeaderByNumber(blockNumber.Uint64())
\*   } else if blockNumber != nil && (blockNumber < 0 || blockNumber > header.Number) {
\*       return nil, errInvalidInput
\*   }
\*   if header == nil { return nil, errUnknownBlock }
ResolveHeader(blockNumber) ==
    LET header == CurrentHeader IN
    IF /\ blockNumber # NilInt
       /\ Cmp(Deref(blockNumber), Small(0)) > 0
       /\ Cmp(Deref(blockNumber), Small(header.Number)) < 0
    THEN LET number == Uint64(Deref(blockNumber))
             found == GetHeaderByNumber(number)
         IN [err |-> IF found = NilHeader THEN errUnknownBlock ELSE NoError,
             header |-> found,
             lookups |-> <<number>>]
    ELSE IF /\ blockNumber # NilInt
            /\ \/ Cmp(Deref(blockNumber), Small(0)) < 0
               \/ Cmp(Deref(blockNumber), Small(header.Number)) > 0
    THEN [err |-> errInvalidInput, header |-> NilHeader, lookups |-> <<>>]
    ELSE [err |-> IF header = NilHeader THEN errUnknownBlock ELSE NoError,
          header |-> header,
          lookups |-> <<>>]

\* core.NewCallMsg(to, data, number); data is the packed method and arguments
NewCallMsg(to, method, params, number) ==
    [to |-> to, method |-> method, params |-> params, number |-> number]

\* What dpos.Call and the following Unpack can do with one evaluation.
Outcomes == {"ok", "callErr", "badData"}

\* The address the main contract's registry holds under a name at a number.
RegistryAddress(contractName, number) == <<contractName, number>>

Ret(err, value, hs, es, dec) ==
    [err |-> err, value |-> value, lookups |-> hs, evals |-> es, decoded |-> dec]

-----------------------------------------------------------------------------
\* Operations, as functions from the arguments and from what the collaborators
\* answer to [err, value, lookups, evals, decoded].

\* func (api *API) GetActiveProducers(blockNumber *big.Int)
GetActiveProducers(blockNumber) ==
    LET h == ResolveHeader(blockNumber) IN
    IF h.err # NoError THEN Ret(h.err, NoValue, h.lookups, <<>>, NoValue)
    ELSE Ret(NoError, h.header.ActiveProducers, h.lookups, <<>>, NoValue)

\* func (api *API) GetPendingProducer(blockNumber *big.Int)
GetPendingProducer(blockNumber) ==
    LET h == ResolveHeader(blockNumber) IN
    IF h.err # NoError THEN Ret(h.err, NoValue, h.lookups, <<>>, NoValue)
    ELSE Ret(NoError, h.header.PendingProducers, h.lookups, <<>>, NoValue)

\* func (api *API) GetSystemContract(contractName string)
\* outcome is what dpos.Call and Unpack do with the registry evaluation.
GetSystemContract(contractName, outcome) ==
    IF contractName = "" THEN Ret(errNullString, NoValue, <<>>, <<>>, NoValue)
    ELSE
        \* Get contract address from current block header
        LET header == CurrentHeader
            call == NewCallMsg(MainSystemContractAddr, "getSystemContract",
                               <<contractName>>, header.Number)
        IN  IF outcome = "callErr" THEN Ret(errCall, NoValue, <<>>, <<call>>, NoValue)
            ELSE IF outcome = "badData" THEN Ret(errUnpack, NoValue, <<>>, <<call>>, NoValue)
            ELSE Ret(NoError, RegistryAddress(contractName, header.Number),
                     <<>>, <<call>>, NoValue)

\* sortTable: one sortNum{serial, num} per weight, in index order
SortTable(weight) ==
    [i \in 1..Len(weight) |-> [serial |-> i, num |-> weight[i]]]

\* Ranking order of the sortNum entries: larger weight first, equal weights in
\* ascending serial order.
Before(a, b) == a.num > b.num \/ (a.num = b.num /\ a.serial < b.serial)

RECURSIVE InsertRanked(_, _)
InsertRanked(sorted, e) ==
    IF sorted = <<>> THEN <<e>>
    ELSE IF Before(e, Head(sorted)) THEN <<e>> \o sorted
    ELSE <<Head(sorted)>> \o InsertRanked(Tail(sorted), e)

RECURSIVE Ranked(_)
Ranked(table) ==
    IF table = <<>> THEN <<>>
    ELSE InsertRanked(Ranked(SubSeq(table, 1, Len(table) - 1)), table[Len(table)])

\* sortTable.GetTop(n): the first n entries of the ranked table
GetTop(table, n) == SubSeq(Ranked(table), 1, n)

\* The size selection: getNumber from len(weight), amount and sizeNumber.
\*   size := sizeNumber.Int64()
\*   if size < 0 { getNumber = len }
\*   else if size == 0 { if amount.Uint64() > len { errTooFewProducers }
\*                       getNumber = amount.Uint64() }
\*   else { if uint64(size) > len { getNumber = len } else { getNumber = uint64(size) } }
GetNumber(weight, amount, sizeNumber) ==
    LET len == Small(Len(weight))
        size == Int64(sizeNumber)
    IN  IF Sign(size) < 0 THEN [err |-> NoError, getNumber |-> len]
        ELSE IF Sign(size) = 0 THEN
            IF Cmp(Uint64(amount), len) > 0
            THEN [err |-> errTooFewProducers, getNumber |-> Small(0)]
            ELSE [err |-> NoError, getNumber |-> Uint64(amount)]
        ELSE IF Cmp(ToUint64(size), len) > 0
            THEN [err |-> NoError, getNumber |-> len]
            ELSE [err |-> NoError, getNumber |-> ToUint64(size)]

\* Variant of TopProducers with a defect: the address is taken at the output
\* position instead of at the entry's serial.
TopProducersByPosition(producersAddr, sortedProducers, getNumber) ==
    [i \in 1..getNumber |->
        [Addr |-> producersAddr[i],
         Weight |-> sortedProducers[i].num]]

\* topProducers: ProducerInfo{producersAddr[sortedProducers[i].serial],
\*                            sortedProducers[i].num} for i < getNumber
TopProducers(producersAddr, sortedProducers, getNumber) ==
    [i \in 1..getNumber |->
        [Addr |-> producersAddr[sortedProducers[i].serial],
         Weight |-> sortedProducers[i].num]]

\* func (api *API) GetAllProducers(blockNumber *big.Int, sizeNumber *big.Int)
\* lookup and call are the outcomes of the two evaluations; out is what Unpack
\* yields for getAllProducersInfo: [producersAddr, weight, amount].
GetAllProducers(blockNumber, sizeNumber, lookup, call, out) ==
    LET h == ResolveHeader(blockNumber) IN
    IF h.err # NoError THEN Ret(h.err, NoValue, h.lookups, <<>>, NoValue)
    ELSE
    LET sys == GetSystemContract(regContract, lookup) IN
    IF sys.err # NoError THEN Ret(errRegAddress, NoValue, h.lookups, sys.evals, NoValue)
    ELSE
    LET msg == NewCallMsg(sys.value, "getAllProducersInfo", <<>>, h.header.Number)
        es == Append(sys.evals, msg)
    IN
    IF call = "callErr" THEN Ret(errCall, NoValue, h.lookups, es, NoValue)
    ELSE IF call = "badData" THEN Ret(errUnpack, NoValue, h.lookups, es, NoValue)
    ELSE IF sizeNumber = NilInt THEN Ret(errPanic, NoValue, h.lookups, es, out)
    ELSE
    LET sel == GetNumber(out.weight, out.amount, Deref(sizeNumber)) IN
    IF sel.err # NoError THEN Ret(sel.err, NoValue, h.lookups, es, out)
    ELSE
    LET sortedProducers == GetTop(SortTable(out.weight), sel.getNumber.r)
        topProducers == TopProducers(out.producersAddr, sortedProducers,
                                     sel.getNumber.r)
    IN  Ret(NoError, [Producers |-> topProducers, Size |-> out.amount],
            h.lookups, es, out)

\* func (api *API) GetVoteInfo(addr *common.Address, blockNumber *big.Int)
\* info is what Unpack yields for getVoteInfo.
GetVoteInfo(addr, blockNumber, lookup, call, info) ==
    LET h == ResolveHeader(blockNumber) IN
    IF h.err # NoError THEN Ret(h.err, NoValue, h.lookups, <<>>, NoValue)
    ELSE
    LET sys == GetSystemContract(voteContract, lookup) IN
    IF sys.err # NoError THEN Ret(errVoteAddress, NoValue, h.lookups, sys.evals, NoValue)
    ELSE
    LET msg == NewCallMsg(sys.value, "getVoteInfo", <<addr>>, h.header.Number)
        es == Append(sys.evals, msg)
    IN
    IF call = "callErr" THEN Ret(errCall, NoValue, h.lookups, es, NoValue)
    ELSE IF call = "badData" THEN Ret(errUnpack, NoValue, h.lookups, es, NoValue)
    ELSE Ret(NoError, info, h.lookups, es, NoValue)

\* Variant of GetProposal with a defect: the call is issued at the current
\* header's number instead of the resolved header's.
GetProposalAtCurrent(blockNumber, call, info) ==
    LET h == ResolveHeader(blockNumber) IN
    IF h.err # NoError THEN Ret(h.err, NoValue, h.lookups, <<>>, NoValue)
    ELSE
    LET msg == NewCallMsg(MainSystemContractAddr, "getProposal", <<>>,
                          CurrentHeader.Number)
    IN
    IF call = "callErr" THEN Ret(errCall, NoValue, h.lookups, <<msg>>, NoValue)
    ELSE IF call = "badData" THEN Ret(errUnpack, NoValue, h.lookups, <<msg>>, NoValue)
    ELSE Ret(NoError, info, h.lookups, <<msg>>, NoValue)

\* func (api *API) GetProposal(blockNumber *big.Int)
\* info is what Unpack yields for getProposal.
GetProposal(blockNumber, call, info) ==
    LET h == ResolveHeader(blockNumber) IN
    IF h.err # NoError THEN Ret(h.err, NoValue, h.lookups, <<>>, NoValue)
    ELSE
    LET msg == NewCallMsg(MainSystemContractAddr, "getProposal", <<>>,
                          h.header.Number)
    IN
    IF call = "callErr" THEN Ret(errCall, NoValue, h.lookups, <<msg>>, NoValue)
    ELSE IF call = "badData" THEN Ret(errUnpack, NoValue, h.lookups, <<msg>>, NoValue)
    ELSE Ret(NoError, info, h.lookups, <<msg>>, NoValue)

-----------------------------------------------------------------------------
\* Inputs.

\* Requested block numbers: nil, every number around the chain's range, and
\* values beyond 64 bits.
BlockNumbers ==
    {NilInt} \cup {Ptr(Small(n)) : n \in -1..(MaxHeight + 1)}
             \cup {Ptr(Big(2, 1)), Ptr(Big(-2, 0))}

\* Requested sizes: nil, small values of each sign, a value above any list
\* length, and the values around the 64-bit limits:
\* 2^63 - 1, 2^63, 2^64, 2^64 + 1, -2^64.
SizeNumbers ==
    {NilInt} \cup {Ptr(Small(n)) : n \in {-1, 0, 1, 2, MaxProducers + 1}}
             \cup {Ptr(Big(1, -1)), Ptr(TwoTo63), Ptr(TwoTo64), Ptr(Big(2, 1)),
                   Ptr(Big(-2, 0))}

\* Producer counts the registration contract can report (an unsigned 256-bit
\* value): small ones up to one more than any list length, 2^64 and 2^64 + 1.
Amounts ==
    {Small(n) : n \in {0, 1, MaxProducers, MaxProducers + 1}}
        \cup {TwoTo64, Big(2, 1)}

\* Producer addresses are distinct; the contract lists them in either order.
AddrOrders(n) == {[i \in 1..n |-> i], [i \in 1..n |-> n + 1 - i]}

\* Decoded getAllProducersInfo outputs: parallel address and weight arrays and
\* the reported count.
Outs ==
    UNION {[producersAddr : AddrOrders(n),
            weight : [1..n -> 1..MaxWeight],
            amount : Amounts] : n \in 0..MaxProducers}

EmptyOut == [producersAddr |-> <<>>, weight |-> <<>>, amount |-> Small(0)]

VoterAddrs == {"voterA", "voterB"}

VoteInfos ==
    {[Proxy |-> "voterB", Producers |-> <<1>>, Staked |-> Small(1), Weight |-> Small(1)],
     [Proxy |-> "voterA", Producers |-> <<>>, Staked |-> Small(0), Weight |-> Small(0)]}

ProposalInfos ==
    {[Id |-> Small(1), Status |-> TRUE, MaliciousBP |-> 1],
     [Id |-> Small(0), Status |-> FALSE, MaliciousBP |-> 0]}

ContractNames == {"", regContract, voteContract, "system.other"}

-----------------------------------------------------------------------------
\* Actions.  A call is answered in one step from the idle state; Return hands
\* the answer to the caller.  The chain changes between calls.

Answer(name, a, res) ==
    /\ op' = name
    /\ args' = a
    /\ result' = [err |-> res.err, value |-> res.value]
    /\ lookups' = res.lookups
    /\ evals' = res.evals
    /\ decoded' = res.decoded
    /\ UNCHANGED <<height, chain>>

ServeGetActiveProducers ==
    /\ op = "idle"
    /\ \E bn \in BlockNumbers :
        Answer("GetActiveProducers", [blockNumber |-> bn], GetActiveProducers(bn))

ServeGetPendingProducer ==
    /\ op = "idle"
    /\ \E bn \in BlockNumbers :
        Answer("GetPendingProducer", [blockNumber |-> bn], GetPendingProducer(bn))

ServeGetAllProducers ==
    /\ op = "idle"
    /\ \E bn \in BlockNumbers, size \in SizeNumbers, lookup \in Outcomes,
          call \in Outcomes :
        LET a == [blockNumber |-> bn, sizeNumber |-> size]
            probe == GetAllProducers(bn, size, lookup, call, EmptyOut)
        IN  IF probe.decoded = NoValue
            THEN Answer("GetAllProducers", a, probe)
            ELSE \E out \in Outs :
                    Answer("GetAllProducers", a,
                           GetAllProducers(bn, size, lookup, call, out))

ServeGetVoteInfo ==
    /\ op = "idle"
    /\ \E addr \in VoterAddrs, bn \in BlockNumbers, lookup \in Outcomes,
          call \in Outcomes, info \in VoteInfos :
        Answer("GetVoteInfo", [addr |-> addr, blockNumber |-> bn],
               GetVoteInfo(addr, bn, lookup, call, info))

ServeGetProposal ==
    /\ op = "idle"
    /\ \E bn \in BlockNumbers, call \in Outcomes, info \in ProposalInfos :
        Answer("GetProposal", [blockNumber |-> bn], GetProposal(bn, call, info))

ServeGetSystemContract ==
    /\ op = "idle"
    /\ \E name \in ContractNames, outcome \in Outcomes :
        Answer("GetSystemContract", [contractName |-> name],
               GetSystemContract(name, outcome))

Return ==
    /\ op # "idle"
    /\ op' = "idle"
    /\ args' = NoValue
    /\ result' = [err |-> NoError, value |-> NoValue]
    /\ lookups' = <<>>
    /\ evals' = <<>>
    /\ decoded' = NoValue
    /\ UNCHANGED <<height, chain>>

\* The chain imports a block: its header becomes the current header.
NewHead ==
    /\ op = "idle"
    /\ height < MaxHeight
    /\ height' = height + 1
    /\ chain' = [n \in 0..(height + 1) |->
                    IF n <= height THEN chain[n] ELSE HeaderFor(n)]
    /\ UNCHANGED <<op, args, result, lookups, evals, decoded>>

\* Chain storage no longer holds a header below the current one, so that
\* GetHeaderByNumber answers nil for its number.
StorageMiss ==
    /\ op = "idle"
    /\ \E n \in 1..(height - 1) :
        /\ chain[n] # NilHeader
        /\ chain' = [chain EXCEPT ![n] = NilHeader]
    /\ UNCHANGED <<height, op, args, result, lookups, evals, decoded>>

Init ==
    /\ height = 0
    /\ chain = [n \in {0} |-> HeaderFor(n)]
    /\ op = "idle"
    /\ args = NoValue
    /\ result = [err |-> NoError, value |-> NoValue]
    /\ lookups = <<>>
    /\ evals = <<>>
    /\ decoded = NoValue

Next ==
    \/ ServeGetActiveProducers
    \/ ServeGetPendingProducer
    \/ ServeGetAllProducers
    \/ ServeGetVoteInfo
    \/ ServeGetProposal
    \/ ServeGetSystemContract
    \/ Return
    \/ NewHead
    \/ StorageMiss

Spec == Init /\ [][Next]_vars

-----------------------------------------------------------------------------
\* Properties.  They read the record of the call being answered; height and
\* chain are those the call ran against, since the chain changes only
\* between calls.

HeightTaking ==
    {"GetActiveProducers", "GetPendingProducer", "GetAllProducers",
     "GetVoteInfo", "GetProposal"}

Evaluating == {"GetAllProducers", "GetVoteInfo", "GetProposal"}

\* The requested height is present and 0 < requested < current.height.
RequestedInRange ==
    /\ args.blockNumber # NilInt
    /\ Cmp(Deref(args.blockNumber), Small(0)) > 0
    /\ Cmp(Deref(args.blockNumber), Small(height)) < 0

\* The requested height is present and below 0 or above current.height.
RequestedOutOfRange ==
    /\ args.blockNumber # NilInt
    /\ \/ Cmp(Deref(args.blockNumber), Small(0)) < 0
       \/ Cmp(Deref(args.blockNumber), Small(height)) > 0

\* An in-range requested height, as a number.
Requested == Deref(args.blockNumber).r

\* The number of the header a height-taking call resolves to, when it does.
ResolvedNumber == IF RequestedInRange THEN Requested ELSE height

\* C1: for 0 < h < current.height with a header stored at h,
\* GetActiveProducers(h) returns the active-producer list of the header at h
\* and GetPendingProducer(h) the pending-producer list of that header.
C1_HistoricalProducerLists ==
    (/\ op \in {"GetActiveProducers", "GetPendingProducer"}
     /\ RequestedInRange
     /\ chain[Requested] # NilHeader)
    => /\ result.err = NoError
       /\ op = "GetActiveProducers"
            => result.value = HeaderFor(Requested).ActiveProducers
       /\ op = "GetPendingProducer"
            => result.value = HeaderFor(Requested).PendingProducers

C1_Witness ==
    /\ op = "GetPendingProducer"
    /\ height = MaxHeight
    /\ RequestedInRange
    /\ Requested = 1
    /\ result.err = NoError
    /\ result.value = HeaderFor(1).PendingProducers
    /\ result.value # HeaderFor(height).PendingProducers

\* C2: for h < 0 or h > current.height every height-taking operation fails
\* with errInvalidInput, whatever its other arguments are.
C2_OutOfRangeIsInvalidInput ==
    (op \in HeightTaking /\ RequestedOutOfRange)
    => /\ result.err = errInvalidInput
       /\ result.value = NoValue

C2_Witness ==
    /\ op = "GetAllProducers"
    /\ args.blockNumber = Ptr(Small(height + 1))
    /\ args.sizeNumber = NilInt
    /\ result.err = errInvalidInput

\* C3: when GetAllProducers succeeds with n records and reported count amount,
\* it returns n records if sizeNumber < 0, amount records (with amount <= n)
\* if sizeNumber = 0 and min(sizeNumber, n) records if sizeNumber > 0; the
\* returned length is at most n and Size equals amount.
C3_ReturnedCount ==
    (op = "GetAllProducers" /\ result.err = NoError)
    => LET n == Len(decoded.weight)
           k == Len(result.value.Producers)
           size == Deref(args.sizeNumber)
       IN  /\ Sign(size) < 0 => k = n
           /\ Sign(size) = 0 => /\ Small(k) = decoded.amount
                                /\ Cmp(decoded.amount, Small(n)) <= 0
           /\ Sign(size) > 0 =>
                IF Cmp(size, Small(n)) < 0 THEN Small(k) = size ELSE k = n
           /\ k <= n
           /\ result.value.Size = decoded.amount

\* C4: GetAllProducers fails with errTooFewProducers if and only if
\* sizeNumber = 0 and amount exceeds the number of records, for every
\* non-negative amount, and then returns no producer list.
C4_TooFewProducersIff ==
    (op = "GetAllProducers" /\ decoded # NoValue /\ args.sizeNumber # NilInt)
    => /\ result.err = errTooFewProducers
            <=> /\ Sign(Deref(args.sizeNumber)) = 0
                /\ Cmp(decoded.amount, Small(Len(decoded.weight))) > 0
       /\ result.err = errTooFewProducers => result.value = NoValue

\* The index of the decoded input that carries a returned address.
IndexOf(addr) ==
    CHOOSE i \in 1..Len(decoded.producersAddr) : decoded.producersAddr[i] = addr

\* Input index j ranks before input index i.
Outranks(j, i) ==
    \/ decoded.weight[j] > decoded.weight[i]
    \/ decoded.weight[j] = decoded.weight[i] /\ j < i

\* C5: the returned sequence is the first entries of the input pairs sorted
\* by weight descending, ties by ascending original index: weights do not
\* increase, equal weights keep index order, every entry carries the address
\* and weight of one input index, no index appears twice, and no input left
\* out ranks before an entry returned.
C5_RankedOutput ==
    (op = "GetAllProducers" /\ result.err = NoError)
    => LET out == result.value.Producers
           n == Len(decoded.weight)
           k == Len(out)
       IN  /\ \A p \in 1..k :
                \E i \in 1..n : /\ decoded.producersAddr[i] = out[p].Addr
                                /\ decoded.weight[i] = out[p].Weight
           /\ \A p, q \in 1..k :
                p < q => /\ IndexOf(out[p].Addr) # IndexOf(out[q].Addr)
                         /\ out[p].Weight >= out[q].Weight
                         /\ out[p].Weight = out[q].Weight
                              => IndexOf(out[p].Addr) < IndexOf(out[q].Addr)
           /\ \A j \in 1..n :
                (\A p \in 1..k : IndexOf(out[p].Addr) # j)
                => \A p \in 1..k : ~Outranks(j, IndexOf(out[p].Addr))

\* Three records of which the last outweighs two tied ones, two returned.
C5_Witness ==
    /\ op = "GetAllProducers"
    /\ result.err = NoError
    /\ decoded.producersAddr = <<3, 2, 1>>
    /\ decoded.weight = <<1, 1, 2>>
    /\ args.sizeNumber = Ptr(Small(2))
    /\ result.value.Producers =
            <<[Addr |-> 1, Weight |-> 2], [Addr |-> 3, Weight |-> 1]>>

\* C6: GetSystemContract("") fails with errInvalidInput and issues no
\* evaluation.
C6_EmptyNameIsInvalidInput ==
    (op = "GetSystemContract" /\ args.contractName = "")
    => /\ result.err = errInvalidInput
       /\ evals = <<>>

\* C7: in GetAllProducers, GetVoteInfo and GetProposal every evaluation,
\* the getSystemContract lookup included, is issued at the number of the
\* header resolved from h.
C7_AllEvaluationsAtResolved ==
    op \in Evaluating
    => \A i \in 1..Len(evals) : evals[i].number = ResolvedNumber

\* C7 as amended: the target procedure call is issued at the number of the
\* resolved header; the getSystemContract lookup made by GetAllProducers and
\* GetVoteInfo is issued at the current header's number.
C7_TargetAtResolvedLookupAtCurrent ==
    op \in Evaluating
    => \A i \in 1..Len(evals) :
        IF evals[i].method = "getSystemContract"
        THEN /\ op # "GetProposal"
             /\ i = 1
             /\ evals[i].number = height
        ELSE /\ i = Len(evals)
             /\ evals[i].number = ResolvedNumber

C7_Witness ==
    /\ op = "GetProposal"
    /\ RequestedInRange
    /\ result.err = NoError
    /\ Len(evals) = 1
    /\ evals[1].method = "getProposal"
    /\ evals[1].number = Requested
    /\ evals[1].number < height

\* C8: for 0 < h < current.height with no header stored at h, every
\* height-taking operation fails with errUnknownBlock, returns no value and
\* issues no evaluation.
C8_StorageMissIsUnknownBlock ==
    (/\ op \in HeightTaking
     /\ RequestedInRange
     /\ chain[Requested] = NilHeader)
    => /\ result.err = errUnknownBlock
       /\ result.value = NoValue
       /\ evals = <<>>

C8_Witness ==
    /\ op = "GetVoteInfo"
    /\ RequestedInRange
    /\ chain[Requested] = NilHeader
    /\ result.err = errUnknownBlock
    /\ evals = <<>>

\* C9: for every sizeNumber > 0, values beyond the signed 64-bit range
\* included, GetAllProducers never fails with errTooFewProducers and returns
\* min(sizeNumber, n) records.
C9_PositiveSizeClamps ==
    (/\ op = "GetAllProducers"
     /\ decoded # NoValue
     /\ args.sizeNumber # NilInt
     /\ Sign(Deref(args.sizeNumber)) > 0)
    => LET n == Len(decoded.weight)
           size == Deref(args.sizeNumber)
       IN  /\ result.err = NoError
           /\ IF Cmp(size, Small(n)) < 0
              THEN Small(Len(result.value.Producers)) = size
              ELSE Len(result.value.Producers) = n

\* C10: GetHeaderByNumber is invoked if and only if
\* 0 < requested < current.height; an absent height, 0 and current.height are
\* not rejected and resolve to the current header.
C10_LookupIffStrictlyInside ==
    op \in HeightTaking
    => /\ lookups # <<>> <=> RequestedInRange
       /\ (\/ args.blockNumber = NilInt
           \/ args.blockNumber = Ptr(Small(0))
           \/ args.blockNumber = Ptr(Small(height)))
          => /\ result.err \notin {errInvalidInput, errUnknownBlock}
             /\ op = "GetActiveProducers"
                  => result.value = HeaderFor(height).ActiveProducers
             /\ op = "GetPendingProducer"
                  => result.value = HeaderFor(height).PendingProducers
             /\ \A i \in 1..Len(evals) : evals[i].number = height

C10_Witness ==
    /\ op = "GetActiveProducers"
    /\ height = MaxHeight
    /\ args.blockNumber = Ptr(Small(0))
    /\ lookups = <<>>
    /\ result.value = HeaderFor(height).ActiveProducers
    /\ result.value # HeaderFor(0).ActiveProducers

====
